---------------------------- MODULE Spec2Model ----------------------------
(***************************************************************************)
(* The interactive diagram viewport engine of the workshop's              *)
(* DiagramRenderer (src/exercises/module2-tools/MCP_INTEGRATION.md,       *)
(* lines 445-1032): pan, zoom, pinch, the toolbar API and fullscreen.     *)
(*                                                                         *)
(* JavaScript Numbers are modelled as exact rationals <<n, d>> in lowest  *)
(* terms with d > 0.  Every comparison the code makes (Math.min,          *)
(* Math.max, !==, >) is made on the exact value.                          *)
(***************************************************************************)
EXTENDS Integers, Sequences, FiniteSets, TLC

(***************************************************************************)
(* Number arithmetic                                                       *)
(***************************************************************************)
Abs(x) == IF x < 0 THEN -x ELSE x

RECURSIVE GCD(_, _)
GCD(a, b) == IF b = 0 THEN a ELSE GCD(b, a % b)

Rat(n, d) ==
    LET g == GCD(Abs(n), Abs(d))
        s == IF d < 0 THEN -1 ELSE 1
    IN  <<(s * n) \div g, (s * d) \div g>>

Num(i) == <<i, 1>>

RAdd(a, b) == Rat(a[1] * b[2] + b[1] * a[2], a[2] * b[2])

RSub(a, b) == Rat(a[1] * b[2] - b[1] * a[2], a[2] * b[2])

RMul(a, b) == Rat(a[1] * b[1], a[2] * b[2])

RDiv(a, b) == Rat(a[1] * b[2], a[2] * b[1])

RLt(a, b) == a[1] * b[2] < b[1] * a[2]

RLe(a, b) == a[1] * b[2] <= b[1] * a[2]

RMin(a, b) == IF RLt(b, a) THEN b ELSE a

RMax(a, b) == IF RLt(a, b) THEN b ELSE a

\* Math.sqrt(dx^2 + dy^2) for the contact pairs of TouchLists, whose
\* distances are whole numbers (the square root of a perfect square is
\* exact in floating point).
TouchDistance(t1, t2) ==
    LET dx == Abs(t2[1] - t1[1])
        dy == Abs(t2[2] - t1[2])
        sq == dx * dx + dy * dy
    IN  Num(CHOOSE r \in 0..(dx + dy) : r * r = sq)

(***************************************************************************)
(* Program constants                                                       *)
(***************************************************************************)
MIN_SCALE == <<1, 2>>
MAX_SCALE == <<3, 1>>
WHEEL_OUT == <<9, 10>>
WHEEL_IN == <<11, 10>>
ZOOM_IN_FACTOR == <<6, 5>>
ZOOM_OUT_FACTOR == <<4, 5>>

(***************************************************************************)
(* Bounds of the model and the inputs the environment draws from           *)
(***************************************************************************)
\* scale changes (by wheel, pinch, zoomIn, zoomOut) per behaviour
MaxZooms == 1
\* press events (mousedown, touchstart) per behaviour
MaxPresses == 1
\* press events per behaviour of SpecTwo
MaxTwoPresses == 2
\* press events per behaviour of SpecDrag, which makes no scale change
MaxDragPresses == 2

\* diagram indices a toolbar button or a caller may name
Indices == {0, 1}

\* clientX/clientY of mouse and wheel events
ClientPoints == {<<120, 60>>, <<40, 30>>}

\* e.deltaY of wheel events
WheelDeltas == {-120, 0, 120, 240}

\* e.touches of touch events: one, two or three contacts
TouchLists ==
    { << <<40, 30>> >> }
      \cup { <<(<<40, 30>>), q>> : q \in {<<70, 70>>, <<220, 270>>} }
      \cup { << <<40, 30>>, <<100, 110>>, <<120, 60>> >> }

\* e.touches in SpecTwo: one or three contacts
TouchListsTwo == { touches \in TouchLists : Len(touches) # 2 }

\* The layout box of diagram d's element before its own transform is
\* applied; the fullscreen class moves and resizes it.
LayoutBox(d, fs) ==
    IF fs THEN [left |-> 0, top |-> 40, width |-> 400, height |-> 200]
    ELSE [left |-> 20, top |-> 10 + 300 * d, width |-> 200, height |-> 100]


(***************************************************************************)
(* One controller: the closure variables of initializePanZoom and the     *)
(* element properties it writes.  styleTransform is << >> while            *)
(* style.transform is unset and <<translateX, translateY, scale>> for      *)
(* `translate(Xpx, Ypx) scale(S)`.                                         *)
(***************************************************************************)
\* Variant of ApplyTransform that writes style.transform alone
ApplyTransformStyleOnly(s) ==
    [s EXCEPT !.styleTransform = <<s.translateX, s.translateY, s.scale>>]

ApplyTransform(s) ==
    [s EXCEPT !.styleTransform = <<s.translateX, s.translateY, s.scale>>,
              !.panZoomState = [scale |-> s.scale,
                                translateX |-> s.translateX,
                                translateY |-> s.translateY]]

InitializePanZoom ==
    [scale |-> Num(1), translateX |-> Num(0), translateY |-> Num(0),
     isDragging |-> FALSE, startX |-> Num(0), startY |-> Num(0),
     lastTouchDistance |-> Num(0),
     cursor |-> "grab",
     styleTransform |-> << >>,
     panZoomState |-> [scale |-> Num(1), translateX |-> Num(0),
                       translateY |-> Num(0)]]

\* The transform the browser renders the element with (transform-origin
\* 0 0 once a transform is set; none before).
Rendered(s) ==
    IF s.styleTransform = << >>
    THEN [translateX |-> Num(0), translateY |-> Num(0), scale |-> Num(1)]
    ELSE [translateX |-> s.styleTransform[1],
          translateY |-> s.styleTransform[2],
          scale |-> s.styleTransform[3]]

\* element.getBoundingClientRect(): the box of the element as rendered,
\* that is its layout box moved and scaled by its own transform.
GetBoundingClientRect(s, box) ==
    LET r == Rendered(s)
    IN  [left |-> RAdd(Num(box.left), r.translateX),
         top |-> RAdd(Num(box.top), r.translateY),
         width |-> RMul(Num(box.width), r.scale),
         height |-> RMul(Num(box.height), r.scale)]

\* Variant of ClampScale without the upper bound: Math.max(0.5, x)
ClampScaleBelowOnly(x) == RMax(MIN_SCALE, x)

\* Math.max(0.5, Math.min(3, x))
ClampScale(x) == RMax(MIN_SCALE, RMin(MAX_SCALE, x))

\* pivot - (pivot - translate) * scaleChange
Repivot(pivot, translate, scaleChange) ==
    RSub(pivot, RMul(RSub(pivot, translate), scaleChange))

\* the body shared by the wheel, pinch, zoomIn and zoomOut handlers once
\* newScale !== scale
ZoomAbout(s, newScale, pivotX, pivotY) ==
    LET scaleChange == RDiv(newScale, s.scale)
    IN  ApplyTransform([s EXCEPT
            !.translateX = Repivot(pivotX, s.translateX, scaleChange),
            !.translateY = Repivot(pivotY, s.translateY, scaleChange),
            !.scale = newScale])

\* Variant of WheelDelta with the directions exchanged
WheelDeltaInverted(deltaY) == IF deltaY > 0 THEN WHEEL_IN ELSE WHEEL_OUT

\* Variant of WheelDelta with a larger step for a faster wheel
WheelDeltaByMagnitude(deltaY) ==
    IF deltaY > 120 THEN ZOOM_OUT_FACTOR
    ELSE IF deltaY > 0 THEN WHEEL_OUT ELSE WHEEL_IN

WheelDelta(deltaY) == IF deltaY > 0 THEN WHEEL_OUT ELSE WHEEL_IN

\* Variant of OnWheel that moves the translation by the requested factor
\* and clamps the scale afterwards
OnWheelClampsAfter(s, box, clientX, clientY, deltaY) ==
    LET rect == GetBoundingClientRect(s, box)
        mouseX == RSub(Num(clientX), rect.left)
        mouseY == RSub(Num(clientY), rect.top)
        moved == ZoomAbout(s, RMul(s.scale, WheelDelta(deltaY)), mouseX, mouseY)
    IN  ApplyTransform([moved EXCEPT !.scale = ClampScale(moved.scale)])

OnWheel(s, box, clientX, clientY, deltaY) ==
    LET rect == GetBoundingClientRect(s, box)
        mouseX == RSub(Num(clientX), rect.left)
        mouseY == RSub(Num(clientY), rect.top)
        newScale == ClampScale(RMul(s.scale, WheelDelta(deltaY)))
    IN  IF newScale # s.scale
        THEN ZoomAbout(s, newScale, mouseX, mouseY)
        ELSE s

CursorForScale(scale) == IF RLt(Num(1), scale) THEN "grab" ELSE "default"

\* Variant of OnMouseDown that records the pointer position alone as the
\* drag origin
OnMouseDownForgetsPan(s, clientX, clientY) ==
    [s EXCEPT !.isDragging = TRUE,
              !.startX = Num(clientX),
              !.startY = Num(clientY),
              !.cursor = "grabbing"]

OnMouseDown(s, clientX, clientY) ==
    [s EXCEPT !.isDragging = TRUE,
              !.startX = RSub(Num(clientX), s.translateX),
              !.startY = RSub(Num(clientY), s.translateY),
              !.cursor = "grabbing"]

\* Variant of OnMouseMove that keeps the translation within 50 px
OnMouseMoveBounded(s, clientX, clientY) ==
    IF s.isDragging
    THEN ApplyTransform([s EXCEPT
            !.translateX = RMax(Num(-50), RMin(Num(50), RSub(Num(clientX), s.startX))),
            !.translateY = RMax(Num(-50), RMin(Num(50), RSub(Num(clientY), s.startY)))])
    ELSE s

\* Variant of OnMouseMove that adds each move's offset to the translation
OnMouseMoveAccumulates(s, clientX, clientY) ==
    IF s.isDragging
    THEN ApplyTransform([s EXCEPT
            !.translateX = RAdd(s.translateX, RSub(Num(clientX), s.startX)),
            !.translateY = RAdd(s.translateY, RSub(Num(clientY), s.startY))])
    ELSE s

OnMouseMove(s, clientX, clientY) ==
    IF s.isDragging
    THEN ApplyTransform([s EXCEPT
            !.translateX = RSub(Num(clientX), s.startX),
            !.translateY = RSub(Num(clientY), s.startY)])
    ELSE s

OnMouseUp(s) ==
    IF s.isDragging
    THEN [s EXCEPT !.isDragging = FALSE, !.cursor = CursorForScale(s.scale)]
    ELSE s

OnTouchStart(s, touches) ==
    IF Len(touches) = 1
    THEN [s EXCEPT !.isDragging = TRUE,
                   !.startX = RSub(Num(touches[1][1]), s.translateX),
                   !.startY = RSub(Num(touches[1][2]), s.translateY)]
    ELSE IF Len(touches) = 2
    THEN [s EXCEPT !.lastTouchDistance = TouchDistance(touches[1], touches[2])]
    ELSE s

\* Variant of PinchScale without the clamp
PinchScaleUnclamped(s, currentDistance) ==
    RMul(s.scale, RDiv(currentDistance, s.lastTouchDistance))

\* scale * (currentDistance / lastTouchDistance), clamped
PinchScale(s, currentDistance) ==
    ClampScale(RMul(s.scale, RDiv(currentDistance, s.lastTouchDistance)))

\* Variant of OnTouchMove that keeps the distance recorded by touchstart
OnTouchMoveKeepsDistance(s, box, touches) ==
    IF Len(touches) = 1 /\ s.isDragging
    THEN ApplyTransform([s EXCEPT
            !.translateX = RSub(Num(touches[1][1]), s.startX),
            !.translateY = RSub(Num(touches[1][2]), s.startY)])
    ELSE IF Len(touches) = 2 /\ RLt(Num(0), s.lastTouchDistance)
            /\ PinchScale(s, TouchDistance(touches[1], touches[2])) # s.scale
    THEN LET rect == GetBoundingClientRect(s, box)
         IN  ZoomAbout(s, PinchScale(s, TouchDistance(touches[1], touches[2])),
                       RSub(RDiv(Num(touches[1][1] + touches[2][1]), Num(2)), rect.left),
                       RSub(RDiv(Num(touches[1][2] + touches[2][2]), Num(2)), rect.top))
    ELSE s

OnTouchMove(s, box, touches) ==
    IF Len(touches) = 1 /\ s.isDragging
    THEN ApplyTransform([s EXCEPT
            !.translateX = RSub(Num(touches[1][1]), s.startX),
            !.translateY = RSub(Num(touches[1][2]), s.startY)])
    ELSE IF Len(touches) = 2
    THEN LET currentDistance == TouchDistance(touches[1], touches[2])
             centerX == RDiv(Num(touches[1][1] + touches[2][1]), Num(2))
             centerY == RDiv(Num(touches[1][2] + touches[2][2]), Num(2))
             rect == GetBoundingClientRect(s, box)
             mouseX == RSub(centerX, rect.left)
             mouseY == RSub(centerY, rect.top)
             zoomed ==
                 IF RLt(Num(0), s.lastTouchDistance)
                    /\ PinchScale(s, currentDistance) # s.scale
                 THEN ZoomAbout(s, PinchScale(s, currentDistance), mouseX, mouseY)
                 ELSE s
         IN  [zoomed EXCEPT !.lastTouchDistance = currentDistance]
    ELSE s

\* Variant of OnTouchEnd that forgets the pinch distance alone
OnTouchEndKeepsDrag(s) == [s EXCEPT !.lastTouchDistance = Num(0)]

OnTouchEnd(s) ==
    [s EXCEPT !.isDragging = FALSE, !.lastTouchDistance = Num(0)]

\* Variant of ElementZoomIn without the newScale !== scale test
ElementZoomInUnguarded(s, box) ==
    LET newScale == RMin(MAX_SCALE, RMul(s.scale, ZOOM_IN_FACTOR))
        rect == GetBoundingClientRect(s, box)
        z == ZoomAbout(s, newScale, RDiv(rect.width, Num(2)),
                       RDiv(rect.height, Num(2)))
    IN  [z EXCEPT !.cursor = CursorForScale(z.scale)]

\* diagramElement.zoomIn / zoomOut: the pivot is half the width and height
\* of the bounding rect
ElementZoomIn(s, box) ==
    LET newScale == RMin(MAX_SCALE, RMul(s.scale, ZOOM_IN_FACTOR))
        rect == GetBoundingClientRect(s, box)
        z == ZoomAbout(s, newScale, RDiv(rect.width, Num(2)),
                       RDiv(rect.height, Num(2)))
    IN  IF newScale # s.scale
        THEN [z EXCEPT !.cursor = CursorForScale(z.scale)]
        ELSE s

ElementZoomOut(s, box) ==
    LET newScale == RMax(MIN_SCALE, RMul(s.scale, ZOOM_OUT_FACTOR))
        rect == GetBoundingClientRect(s, box)
        z == ZoomAbout(s, newScale, RDiv(rect.width, Num(2)),
                       RDiv(rect.height, Num(2)))
    IN  IF newScale # s.scale
        THEN [z EXCEPT !.cursor = CursorForScale(z.scale)]
        ELSE s

\* Variant of ElementResetView that resets the scale alone
ElementResetViewKeepsPan(s) ==
    [ApplyTransform([s EXCEPT !.scale = Num(1)]) EXCEPT !.cursor = "default"]

ElementResetView(s) ==
    [ApplyTransform([s EXCEPT !.scale = Num(1), !.translateX = Num(0),
                              !.translateY = Num(0)])
        EXCEPT !.cursor = "default"]

(***************************************************************************)
(* The page: the rendered diagrams, their controllers and containers       *)
(***************************************************************************)
VARIABLES
    diagrams,       \* the indices N for which #diagram-N is in the document
    vp,             \* vp[N]: the controller of #diagram-N
    fullscreen,     \* fullscreen[N]: the container of #diagram-N has class diagram-fullscreen
    bodyOverflow,   \* document.body.style.overflow
    thrown,         \* the call made last raised an exception to its caller
    mouseHeld,      \* the diagrams that received a mousedown since the last mouseup
    zoomsLeft,      \* scale changes the behaviour may still make
    pressesLeft,    \* press events the behaviour may still make
    rt,             \* observer of the drags made on diagram Watched
    site,           \* the page of the workshop website, as main.js keeps it
                    \*   (the fields are described with SiteLoaded)
    load            \* the render passes of the DiagramRenderer instances:
                    \*   containers  indices of the containers querySelectorAll matches
                    \*   pc[r], at[r]  where renderer r is, and at which container
                    \*   held[c]     the renderers whose .mermaid-rendered element is in container c
                    \*   inits[c]    the initializePanZoom calls made for container c

vars == <<diagrams, vp, fullscreen, bodyOverflow, thrown, mouseHeld,
          zoomsLeft, pressesLeft, rt, site, load>>

\* the variables of the diagram renderer, which main.js does not touch
rendererVars == <<diagrams, vp, fullscreen, bodyOverflow, thrown, mouseHeld,
                  zoomsLeft, pressesLeft, rt, load>>

Box(d) == LayoutBox(d, fullscreen[d])

Translation(s) == <<s.translateX, s.translateY>>

Transform(s) == <<s.scale, s.translateX, s.translateY>>

Identity == <<Num(1), Num(0), Num(0)>>

\* the document-level listeners that controller d holds: initializePanZoom
\* adds both and nothing removes them
DocumentListeners(d) == IF d \in diagrams THEN {"mousemove", "mouseup"} ELSE {}

(***************************************************************************)
(* The drag observer.  It follows the press, move and release events of   *)
(* diagram Watched and recognises two consecutive drags, the second        *)
(* starting where the first ended, with nothing but stray moves and        *)
(* releases between them:                                                  *)
(*   phase 1  first drag under way (pressed at p0 with translation t0)     *)
(*   phase 2  first drag released with the pointer at p1                   *)
(*   phase 3  second drag under way, pressed at p1                         *)
(*   phase 4  second drag released with the pointer back at p0             *)
(* Any other event (a zoom, a reset, a pinch, a press or a release of the  *)
(* other pointer kind during a drag) returns it to phase 0.                *)
(***************************************************************************)
Watched == 0

RtIdle(on) ==
    [on |-> on, phase |-> 0, kind |-> "none", t0 |-> <<Num(0), Num(0)>>,
     p0 |-> <<0, 0>>, p1 |-> <<0, 0>>, cur |-> <<0, 0>>]

RtAbort == IF rt.on THEN RtIdle(TRUE) ELSE rt

RtPress(kind, p) ==
    IF ~rt.on THEN rt
    ELSE IF rt.phase = 2 /\ p = rt.p1
    THEN [rt EXCEPT !.phase = 3, !.kind = kind, !.cur = p]
    ELSE [on |-> TRUE, phase |-> 1, kind |-> kind,
          t0 |-> Translation(vp[Watched]), p0 |-> p, p1 |-> p, cur |-> p]

RtMove(kind, q) ==
    IF ~rt.on THEN rt
    ELSE IF rt.phase \in {1, 3}
    THEN IF kind = rt.kind THEN [rt EXCEPT !.cur = q] ELSE RtIdle(TRUE)
    ELSE IF rt.phase = 2 THEN rt
    ELSE RtIdle(TRUE)

RtRelease(kind) ==
    IF ~rt.on THEN rt
    ELSE IF rt.phase = 1 /\ kind = rt.kind
    THEN [rt EXCEPT !.phase = 2, !.p1 = rt.cur]
    ELSE IF rt.phase = 3 /\ kind = rt.kind /\ rt.cur = rt.p0
    THEN [rt EXCEPT !.phase = 4]
    ELSE IF rt.phase = 2 THEN rt
    ELSE RtIdle(TRUE)

\* an event addressed to diagram d is observed only when d is Watched
RtOn(d, observed) == IF d = Watched THEN observed ELSE rt

(***************************************************************************)
(* The workshop website (scripts/main.js).  site is a record:              *)
(*   sections[h]   header h of a collapsible section and its content       *)
(*   animTimers    the pending setTimeout callbacks of expandContent and   *)
(*                 collapseContent, oldest first: all have the same delay  *)
(*                 and so fire in the order they were set                  *)
(*   buttons[b]    copy button b: its label, classes and aria-label        *)
(*   copyTimers    the pending feedback timers <<b, class, originalText>>, *)
(*                 oldest first                                            *)
(*   errors        the list stored under the key errors in localStorage,   *)
(*                 each errorInfo written as the ordinal of its logError   *)
(*                 call                                                    *)
(*   logged        the logError calls made                                 *)
(*   written       the ordinals of the calls whose Storage.set succeeded   *)
(*   markup[cb]    progress checkbox cb as the page's HTML gives it: its   *)
(*                 data-module, data-step, id and checked attributes       *)
(*   checked[cb]   checkbox.checked                                        *)
(*   storage[key]  localStorage under a progress key: "null" when absent   *)
(*   percentage    the number the progress bar and text display            *)
(*   recorded[cb]  the value the last successful Storage.set of a change   *)
(*                 of cb wrote, "none" before any                          *)
(*   reloaded      no checkbox was changed since the page was loaded       *)
(*   dropdowns[d]  dropdown d of the navigation: whether it carries the    *)
(*                 class active, and the aria-expanded of its toggle ("" *)
(*                 while the attribute is absent)                          *)
(*   focus         the element main.js focused last                        *)
(*   theme         "dark" when <html> has the class dark-mode, else "light"*)
(*   savedTheme    localStorage under the key theme, "null" when absent    *)
(*   prefersDark   matchMedia('(prefers-color-scheme: dark)').matches      *)
(*   toggled       the user has toggled the theme and the preference was   *)
(*                 stored                                                  *)
(*   lastEvent     the event handled last                                  *)
(*   modals        the details modals created so far, in order: whether    *)
(*                 each is a child of document.body and has class visible  *)
(*   modalTimers   the pending timers of the modals, oldest first:         *)
(*                 <<"show", m>> (10 ms) and <<"remove", m>> (300 ms)      *)
(*   removeThrew   a removeChild call found its modal no longer in body    *)
(*                 and threw                                               *)
(*   modalEventsLeft  user events on the modals the behaviour may still    *)
(*                 make                                                    *)
(*   clicksLeft    user events the behaviour may still make                *)
(***************************************************************************)
\* user events in a behaviour of the website, at most
MaxClicks == 3

\* the .collapsible-header elements of the page
Headers == {0, 1}

\* a header and its content as the markup gives them, before main.js runs
SectionMarkup(ariaExpanded) ==
    [aria |-> ariaExpanded, classes |-> {}, display |-> "", height |-> "",
     overflow |-> "", transition |-> FALSE]

\* CollapsibleManager.expandContent up to its setTimeout
ExpandContent(c) ==
    [c EXCEPT !.display = "block", !.overflow = "hidden", !.transition = TRUE,
              !.height = "px"]

\* the callback expandContent hands to setTimeout
ExpandContentTimer(c) ==
    [c EXCEPT !.height = "auto", !.overflow = "visible", !.transition = FALSE]

\* CollapsibleManager.collapseContent up to its setTimeout
CollapseContent(c) ==
    [c EXCEPT !.overflow = "hidden", !.transition = TRUE, !.height = "0px"]

\* the callback collapseContent hands to setTimeout
CollapseContentTimer(c) ==
    [c EXCEPT !.display = "none", !.transition = FALSE]

\* CollapsibleManager.setCollapsibleState, the timer it starts apart
SetCollapsibleState(c, isExpanded) ==
    IF isExpanded
    THEN [ExpandContent(c) EXCEPT !.aria = TRUE,
                                  !.classes = (c.classes \cup {"expanded"}) \ {"collapsed"}]
    ELSE [CollapseContent(c) EXCEPT !.aria = FALSE,
                                    !.classes = (c.classes \cup {"collapsed"}) \ {"expanded"}]

\* the timer setCollapsibleState starts for header h
AnimTimer(h, isExpanded) == <<h, IF isExpanded THEN "expand" ELSE "collapse">>

\* Headers in document order
RECURSIVE InOrder(_)
InOrder(S) ==
    IF S = {} THEN << >>
    ELSE LET h == CHOOSE x \in S : \A y \in S : x <= y
         IN  <<h>> \o InOrder(S \ {h})

\* the .copy-btn elements of the page
Buttons == {0, 1}

\* a copy button after setupCopyButton
CopyButton ==
    [text |-> "Copy", classes |-> {}, ariaLabel |-> "Copy code to clipboard"]

\* ClipboardManager.showCopySuccess / showCopyError up to the setTimeout:
\* class is copied or error (the labels are written without their tick
\* and cross)
ShowCopyFeedback(b, class) ==
    [b EXCEPT !.classes = b.classes \cup {class},
              !.text = IF class = "copied" THEN "Copied!" ELSE "Failed",
              !.ariaLabel = IF class = "copied" THEN "Code copied successfully"
                            ELSE "Copy failed"]

\* the callback showCopySuccess / showCopyError hands to setTimeout, with
\* the originalText it closed over
CopyFeedbackTimer(b, class, originalText) ==
    [b EXCEPT !.classes = b.classes \ {class},
              !.text = originalText,
              !.ariaLabel = "Copy code to clipboard"]

\* logError calls in a behaviour, at most
MaxLogs == 12

\* the length logError trims the stored list to
ERROR_LOG_LIMIT == 10

\* Variant of PushError that keeps the oldest entries
PushErrorKeepsOldest(errors, errorInfo) ==
    LET pushed == Append(errors, errorInfo)
    IN  IF Len(pushed) > ERROR_LOG_LIMIT
        THEN SubSeq(pushed, 1, ERROR_LOG_LIMIT)
        ELSE pushed

\* errors.push(errorInfo) and the splice that keeps the last 10
PushError(errors, errorInfo) ==
    LET pushed == Append(errors, errorInfo)
    IN  IF Len(pushed) > ERROR_LOG_LIMIT
        THEN SubSeq(pushed, Len(pushed) - ERROR_LOG_LIMIT + 1, Len(pushed))
        ELSE pushed

\* .progress-checkbox elements on the page, at most
MaxCheckboxes == 2

\* the attributes a progress checkbox may have; "" is an absent attribute
\* and an id is the element's own
CheckboxMarkups(cb) ==
    [module : {"", "module1"}, step : {"", "1"},
     id : {"", IF cb = 0 THEN "cb0" ELSE "cb1"}, checked : BOOLEAN]

\* ProgressTracker.getProgressKey: the key is progress-<module>-<step>,
\* written as the pair of its two parts
GetProgressKey(m) ==
    <<IF m.module # "" THEN m.module ELSE "general",
      IF m.step # "" THEN m.step ELSE IF m.id # "" THEN m.id ELSE "unknown">>

ProgressKeys == {"module1", "general"} \X {"1", "cb0", "cb1", "unknown"}

\* Math.round((completedSteps / totalSteps) * 100), or 0 without steps
Percentage(completedSteps, totalSteps) ==
    IF totalSteps > 0
    THEN (200 * completedSteps + totalSteps) \div (2 * totalSteps)
    ELSE 0

\* ProgressTracker.updateProgressDisplay over the checkboxes' checked
PercentageOf(checked) ==
    Percentage(Cardinality({cb \in DOMAIN checked : checked[cb]}),
               Cardinality(DOMAIN checked))

\* Variant of LoadProgress that sets every checkbox from its stored value
LoadProgressSetsBoth(markup, storage) ==
    [cb \in DOMAIN markup |->
        IF storage[GetProgressKey(markup[cb])] = "null"
        THEN markup[cb].checked
        ELSE storage[GetProgressKey(markup[cb])] = "true"]

\* the checkboxes after the page has been parsed and loadProgress has run
LoadProgress(markup, storage) ==
    [cb \in DOMAIN markup |->
        IF storage[GetProgressKey(markup[cb])] = "true"
        THEN TRUE
        ELSE markup[cb].checked]

\* The dropdowns of the navigation: each is an element of class dropdown
\* holding one .dropdown-toggle and one .dropdown-menu with MenuItems links,
\* none inside another.
Dropdowns == {0, 1, 2}

MenuItems == {0, 1}

\* NavigationManager.closeDropdown
CloseDropdown(dropdowns, d) ==
    [dropdowns EXCEPT ![d] = [active |-> FALSE, aria |-> "false"]]

\* Variant of OpenDropdown that leaves the other dropdowns as they are
OpenDropdownOnly(dropdowns, d) ==
    [dropdowns EXCEPT ![d] = [active |-> TRUE, aria |-> "true"]]

\* NavigationManager.openDropdown: every other .dropdown is closed first
OpenDropdown(dropdowns, d) ==
    [other \in DOMAIN dropdowns |->
        IF other = d THEN [active |-> TRUE, aria |-> "true"]
        ELSE [active |-> FALSE, aria |-> "false"]]

\* NavigationManager.toggleDropdown
ToggleDropdown(dropdowns, d) ==
    IF dropdowns[d].active THEN CloseDropdown(dropdowns, d)
    ELSE OpenDropdown(dropdowns, d)

\* the click listeners on document, for a click inside the dropdowns of the
\* set inside (empty for a click elsewhere): each dropdown that does not
\* contain the target is closed
DocumentClick(dropdowns, inside) ==
    [d \in DOMAIN dropdowns |->
        IF d \in inside THEN dropdowns[d] ELSE [active |-> FALSE, aria |-> "false"]]

\* ThemeManager.loadThemePreference
LoadThemePreference(savedTheme, prefersDark) ==
    IF savedTheme # "null" THEN savedTheme
    ELSE IF prefersDark THEN "dark" ELSE "light"

\* Variant of OnSystemPreferenceChange that follows the system always
OnSystemPreferenceChangeAlways(theme, savedTheme, matches) ==
    IF matches THEN "dark" ELSE "light"

\* the change listener of the media query: the theme after an event with
\* e.matches = matches
OnSystemPreferenceChange(theme, savedTheme, matches) ==
    IF savedTheme = "null"
    THEN IF matches THEN "dark" ELSE "light"
    ELSE theme

\* user events on the details modals in a behaviour, at most
MaxModalEvents == 4

\* DiagramManager.closeDetailsModal on modal m, up to its setTimeout
CloseDetailsModal(modals, m) == [modals EXCEPT ![m].visible = FALSE]

\* the callback closeDetailsModal hands to setTimeout:
\* document.body.removeChild(modal) throws when modal is not a child
RemoveModalTimer(modals, m) == [modals EXCEPT ![m].inDocument = FALSE]

\* the timers that may fire next: a timer fires after those set before it
\* that have the same or a shorter delay
Fireable(timers) ==
    { i \in DOMAIN timers :
        IF timers[i][1] = "remove" THEN i = 1
        ELSE \A j \in 1..(i - 1) : timers[j][1] # "show" }

\* timers without its i-th entry
Without(timers, i) ==
    SubSeq(timers, 1, i - 1) \o SubSeq(timers, i + 1, Len(timers))

\* the page after the constructors of main.js have run, the headers in
\* expanded having aria-expanded="true" in the markup
SitePage(expanded) ==
    [sections |-> [h \in Headers |->
                     SetCollapsibleState(SectionMarkup(h \in expanded), h \in expanded)],
     animTimers |-> [i \in 1..Cardinality(Headers) |->
                       AnimTimer(InOrder(Headers)[i], InOrder(Headers)[i] \in expanded)],
     buttons |-> [b \in Buttons |-> CopyButton],
     copyTimers |-> << >>,
     markup |-> << >>,
     checked |-> << >>,
     storage |-> [key \in ProgressKeys |-> "null"],
     percentage |-> 0,
     recorded |-> << >>,
     reloaded |-> TRUE,
     dropdowns |-> [d \in Dropdowns |-> [active |-> FALSE, aria |-> ""]],
     focus |-> <<"body">>,
     theme |-> LoadThemePreference("null", FALSE),
     savedTheme |-> "null",
     prefersDark |-> FALSE,
     toggled |-> FALSE,
     lastEvent |-> "load",
     modals |-> << >>,
     modalTimers |-> << >>,
     removeThrew |-> FALSE,
     modalEventsLeft |-> MaxModalEvents,
     errors |-> << >>,
     logged |-> 0,
     written |-> {},
     clicksLeft |-> MaxClicks]

SiteLoaded == SitePage({})

(***************************************************************************)
(* Initial states                                                          *)
(***************************************************************************)
\* the render pass of one renderer has rendered the containers ds
Loaded(ds) ==
    [containers |-> ds,
     pc |-> [r \in {1} |-> "done"],
     at |-> [r \in {1} |-> Cardinality(ds)],
     held |-> [c \in ds |-> {1}],
     inits |-> [c \in ds |-> 1],
     errors |-> {}]

PageLoaded(ds, zooms, presses, observe) ==
    /\ load = Loaded(ds)
    /\ diagrams = ds
    /\ vp = [d \in ds |-> InitializePanZoom]
    /\ fullscreen = [d \in ds |-> FALSE]
    /\ bodyOverflow = ""
    /\ thrown = FALSE
    /\ mouseHeld = {}
    /\ zoomsLeft = zooms
    /\ pressesLeft = presses
    /\ rt = RtIdle(observe)
    /\ site = SiteLoaded

\* a page with one diagram container
Init == PageLoaded({0}, MaxZooms, MaxPresses, FALSE)

\* a page with two diagram containers
InitTwo == PageLoaded({0, 1}, MaxZooms, MaxTwoPresses, FALSE)

(***************************************************************************)
(* Events and calls                                                        *)
(***************************************************************************)
\* a handler that may change the scale of diagram d, within the budget
Zoom(d, next) ==
    /\ zoomsLeft > 0 \/ next.scale = vp[d].scale
    /\ vp' = [vp EXCEPT ![d] = next]
    /\ zoomsLeft' = IF next.scale = vp[d].scale THEN zoomsLeft ELSE zoomsLeft - 1
    /\ thrown' = FALSE
    /\ UNCHANGED <<load, site, diagrams, fullscreen, bodyOverflow, mouseHeld, pressesLeft>>

\* the controller of diagram d as its wheel listener leaves it
AfterWheel(d, p, deltaY) == OnWheel(vp[d], Box(d), p[1], p[2], deltaY)

Wheel(d, p, deltaY) ==
    /\ Zoom(d, AfterWheel(d, p, deltaY))
    /\ rt' = RtOn(d, RtAbort)

MouseDown(d, p) ==
    /\ pressesLeft > 0
    /\ vp' = [vp EXCEPT ![d] = OnMouseDown(vp[d], p[1], p[2])]
    /\ pressesLeft' = pressesLeft - 1
    /\ mouseHeld' = mouseHeld \cup {d}
    /\ thrown' = FALSE
    /\ rt' = RtOn(d, RtPress("mouse", p))
    /\ UNCHANGED <<load, site, diagrams, fullscreen, bodyOverflow, zoomsLeft>>

\* every controller's listener on document runs
MouseMove(p) ==
    /\ vp' = [d \in diagrams |-> OnMouseMove(vp[d], p[1], p[2])]
    /\ thrown' = FALSE
    /\ rt' = RtMove("mouse", p)
    /\ UNCHANGED <<load, site, diagrams, fullscreen, bodyOverflow, mouseHeld, zoomsLeft, pressesLeft>>

MouseUp ==
    /\ vp' = [d \in diagrams |-> OnMouseUp(vp[d])]
    /\ mouseHeld' = {}
    /\ thrown' = FALSE
    /\ rt' = RtRelease("mouse")
    /\ UNCHANGED <<load, site, diagrams, fullscreen, bodyOverflow, zoomsLeft, pressesLeft>>

TouchStart(d, touches) ==
    /\ pressesLeft > 0
    /\ vp' = [vp EXCEPT ![d] = OnTouchStart(vp[d], touches)]
    /\ pressesLeft' = pressesLeft - 1
    /\ thrown' = FALSE
    /\ rt' = RtOn(d, IF Len(touches) = 1 THEN RtPress("touch", touches[1])
                     ELSE RtAbort)
    /\ UNCHANGED <<load, site, diagrams, fullscreen, bodyOverflow, mouseHeld, zoomsLeft>>

\* the controller of diagram d as its touchmove listener leaves it
AfterTouchMove(d, touches) == OnTouchMove(vp[d], Box(d), touches)

TouchMove(d, touches) ==
    /\ Zoom(d, AfterTouchMove(d, touches))
    /\ rt' = RtOn(d, IF Len(touches) = 1 THEN RtMove("touch", touches[1])
                     ELSE RtAbort)

TouchEnd(d) ==
    /\ vp' = [vp EXCEPT ![d] = OnTouchEnd(vp[d])]
    /\ thrown' = FALSE
    /\ rt' = RtOn(d, RtRelease("touch"))
    /\ UNCHANGED <<load, site, diagrams, fullscreen, bodyOverflow, mouseHeld, zoomsLeft, pressesLeft>>

\* initializePanZoom registers no touchcancel listener
TouchCancel(d) ==
    /\ thrown' = FALSE
    /\ rt' = RtOn(d, RtAbort)
    /\ UNCHANGED <<load, site, diagrams, vp, fullscreen, bodyOverflow, mouseHeld, zoomsLeft, pressesLeft>>

\* a call that finds no #diagram-index and returns
NoDiagram ==
    /\ thrown' = FALSE
    /\ UNCHANGED <<load, site, diagrams, vp, fullscreen, bodyOverflow, mouseHeld,
                   zoomsLeft, pressesLeft, rt>>

\* the controller of #diagram-index as its zoomIn, zoomOut and resetView
\* leave it
AfterZoomIn(index) == ElementZoomIn(vp[index], Box(index))

AfterZoomOut(index) == ElementZoomOut(vp[index], Box(index))

AfterResetView(index) == ElementResetView(vp[index])

\* DiagramRenderer.zoomIn(index)
ZoomIn(index) ==
    IF index \in diagrams
    THEN /\ Zoom(index, AfterZoomIn(index))
         /\ rt' = RtOn(index, RtAbort)
    ELSE NoDiagram

\* DiagramRenderer.zoomOut(index)
ZoomOut(index) ==
    IF index \in diagrams
    THEN /\ Zoom(index, AfterZoomOut(index))
         /\ rt' = RtOn(index, RtAbort)
    ELSE NoDiagram

\* DiagramRenderer.resetView(index)
ResetView(index) ==
    IF index \in diagrams
    THEN /\ vp' = [vp EXCEPT ![index] = AfterResetView(index)]
         /\ thrown' = FALSE
         /\ rt' = RtOn(index, RtAbort)
         /\ UNCHANGED <<load, site, diagrams, fullscreen, bodyOverflow, mouseHeld,
                        zoomsLeft, pressesLeft>>
    ELSE NoDiagram

\* Variant of ToggledFullscreen that only ever adds the class
FullscreenAdded(fs, index) == [fs EXCEPT ![index] = TRUE]

\* classList after the add or remove of toggleFullscreen on container index
ToggledFullscreen(fs, index) == [fs EXCEPT ![index] = ~fs[index]]

\* Variant of ToggleFullscreen that also resets the view it presents
ToggleFullscreenResetsView(index) ==
    /\ index \in diagrams
    /\ fullscreen' = ToggledFullscreen(fullscreen, index)
    /\ bodyOverflow' = IF fullscreen[index] THEN "" ELSE "hidden"
    /\ vp' = [vp EXCEPT ![index] = ElementResetView(vp[index])]
    /\ thrown' = FALSE
    /\ rt' = RtOn(index, RtAbort)
    /\ UNCHANGED <<load, site, diagrams, mouseHeld, zoomsLeft, pressesLeft>>

\* Variant of ToggleFullscreen that leaves document.body.style.overflow alone
ToggleFullscreenKeepsScroll(index) ==
    /\ index \in diagrams
    /\ fullscreen' = ToggledFullscreen(fullscreen, index)
    /\ thrown' = FALSE
    /\ rt' = RtOn(index, RtAbort)
    /\ UNCHANGED <<load, site, diagrams, vp, bodyOverflow, mouseHeld, zoomsLeft, pressesLeft>>

\* DiagramRenderer.toggleFullscreen(index): querySelector returns null when
\* no #diagram-index exists and reading .parentElement of null throws
ToggleFullscreen(index) ==
    IF index \in diagrams
    THEN /\ fullscreen' = ToggledFullscreen(fullscreen, index)
         /\ bodyOverflow' = IF fullscreen[index] THEN "" ELSE "hidden"
         /\ thrown' = FALSE
         /\ rt' = RtOn(index, RtAbort)
         /\ UNCHANGED <<load, site, diagrams, vp, mouseHeld, zoomsLeft, pressesLeft>>
    ELSE /\ thrown' = TRUE
         /\ UNCHANGED <<load, site, diagrams, vp, fullscreen, bodyOverflow, mouseHeld,
                        zoomsLeft, pressesLeft, rt>>

\* the input events, with the touch lists drawn from lists
Gestures(lists) ==
    \/ \E d \in diagrams, p \in ClientPoints, deltaY \in WheelDeltas : Wheel(d, p, deltaY)
    \/ \E d \in diagrams, p \in ClientPoints : MouseDown(d, p)
    \/ \E p \in ClientPoints : MouseMove(p)
    \/ MouseUp
    \/ \E d \in diagrams, touches \in lists : TouchStart(d, touches)
    \/ \E d \in diagrams, touches \in lists : TouchMove(d, touches)
    \/ \E d \in diagrams : TouchEnd(d)
    \/ \E d \in diagrams : TouchCancel(d)

\* the toolbar's zoom and reset buttons
Toolbar ==
    \/ \E index \in Indices : ZoomIn(index)
    \/ \E index \in Indices : ZoomOut(index)
    \/ \E index \in Indices : ResetView(index)

Next == Gestures(TouchLists) \/ Toolbar

\* the page operated with the mouse and the toolbar, fullscreen button
\* included
NextPage ==
    \/ \E d \in diagrams, p \in ClientPoints, deltaY \in WheelDeltas : Wheel(d, p, deltaY)
    \/ \E d \in diagrams, p \in ClientPoints : MouseDown(d, p)
    \/ \E p \in ClientPoints : MouseMove(p)
    \/ MouseUp
    \/ Toolbar
    \/ \E index \in diagrams : ToggleFullscreen(index)

\* two diagrams, without two-contact touch lists
NextTwo == Gestures(TouchListsTwo) \/ Toolbar

Spec == Init /\ [][Next]_vars

SpecPage == Init /\ [][NextPage]_vars

SpecTwo == InitTwo /\ [][NextTwo]_vars

(***************************************************************************)
(* Drags alone, from the controller states one scale change away from the  *)
(* freshly registered one                                                  *)
(***************************************************************************)
ZoomedOnce ==
    {InitializePanZoom,
     ElementZoomIn(InitializePanZoom, LayoutBox(0, FALSE)),
     ElementZoomOut(InitializePanZoom, LayoutBox(0, FALSE))}
      \cup { OnWheel(InitializePanZoom, LayoutBox(0, FALSE), p[1], p[2], deltaY) :
                p \in ClientPoints, deltaY \in WheelDeltas }

InitDrag ==
    /\ load = Loaded({0})
    /\ diagrams = {0}
    /\ vp \in [{0} -> ZoomedOnce]
    /\ fullscreen = [d \in {0} |-> FALSE]
    /\ bodyOverflow = ""
    /\ thrown = FALSE
    /\ mouseHeld = {}
    /\ zoomsLeft = 0
    /\ pressesLeft = MaxDragPresses
    /\ rt = RtIdle(TRUE)
    /\ site = SiteLoaded

NextDrag ==
    \/ \E d \in diagrams, p \in ClientPoints : MouseDown(d, p)
    \/ \E p \in ClientPoints : MouseMove(p)
    \/ MouseUp
    \/ \E d \in diagrams, touches \in TouchLists : TouchStart(d, touches)
    \/ \E d \in diagrams, touches \in TouchLists : TouchMove(d, touches)
    \/ \E d \in diagrams : TouchEnd(d)
    \/ \E d \in diagrams : TouchCancel(d)
    \/ \E index \in Indices : ResetView(index)

SpecDrag == InitDrag /\ [][NextDrag]_vars

(***************************************************************************)
(* The toolbar and the fullscreen button called with any index, on a page  *)
(* with one or with two diagrams, between mouse drags                      *)
(***************************************************************************)
InitCalls ==
    \E ds \in {{0}, {0, 1}} : PageLoaded(ds, MaxZooms, MaxPresses, FALSE)

NextCalls ==
    \/ \E d \in diagrams, p \in ClientPoints : MouseDown(d, p)
    \/ \E p \in ClientPoints : MouseMove(p)
    \/ MouseUp
    \/ Toolbar
    \/ \E index \in Indices : ToggleFullscreen(index)

SpecCalls == InitCalls /\ [][NextCalls]_vars

(***************************************************************************)
(* One diagram operated by wheel, touch and toolbar, without the mouse     *)
(***************************************************************************)
NextZoom ==
    \/ \E d \in diagrams, p \in ClientPoints, deltaY \in WheelDeltas : Wheel(d, p, deltaY)
    \/ \E d \in diagrams, touches \in TouchLists : TouchStart(d, touches)
    \/ \E d \in diagrams, touches \in TouchLists : TouchMove(d, touches)
    \/ \E d \in diagrams : TouchEnd(d)
    \/ Toolbar

SpecZoom == Init /\ [][NextZoom]_vars

(***************************************************************************)
(* The workshop website: a page without diagram containers                 *)
(***************************************************************************)
NoDiagrams ==
    /\ load = Loaded({})
    /\ diagrams = {}
    /\ vp = [d \in {} |-> InitializePanZoom]
    /\ fullscreen = [d \in {} |-> FALSE]
    /\ bodyOverflow = ""
    /\ thrown = FALSE
    /\ mouseHeld = {}
    /\ zoomsLeft = 0
    /\ pressesLeft = 0
    /\ rt = RtIdle(FALSE)

\* a user event on the website, within the budget
Click(next) ==
    /\ site.clicksLeft > 0
    /\ site' = [next EXCEPT !.clicksLeft = site.clicksLeft - 1]
    /\ UNCHANGED rendererVars

\* the site after CollapsibleManager.toggleCollapsible on header h
AfterToggleCollapsible(h) ==
    LET isExpanded == ~site.sections[h].aria
    IN  [site EXCEPT !.sections[h] = SetCollapsibleState(site.sections[h], isExpanded),
                     !.animTimers = Append(site.animTimers, AnimTimer(h, isExpanded))]

\* click, Enter or Space on header h
ToggleCollapsible(h) == Click(AfterToggleCollapsible(h))

\* the oldest animation timer fires
AnimTimerFired ==
    /\ site.animTimers # << >>
    /\ LET h == Head(site.animTimers)[1]
           c == site.sections[h]
       IN  site' = [site EXCEPT
                      !.sections[h] = IF Head(site.animTimers)[2] = "expand"
                                      THEN ExpandContentTimer(c)
                                      ELSE CollapseContentTimer(c),
                      !.animTimers = Tail(site.animTimers)]
    /\ UNCHANGED rendererVars

InitCollapsible ==
    /\ NoDiagrams
    /\ site \in {SitePage(expanded) : expanded \in SUBSET Headers}

NextCollapsible ==
    \/ \E h \in Headers : ToggleCollapsible(h)
    \/ AnimTimerFired

SpecCollapsible == InitCollapsible /\ [][NextCollapsible]_vars

\* the site after handleCopyClick on button b, the copy having succeeded
\* (class copied) or failed (class error)
AfterCopyClick(b, class) ==
    [site EXCEPT !.buttons[b] = ShowCopyFeedback(site.buttons[b], class),
                 !.copyTimers = Append(site.copyTimers,
                                       <<b, class, site.buttons[b].text>>)]

\* click, Enter or Space on copy button b
CopyClick(b, class) == Click(AfterCopyClick(b, class))

\* the oldest feedback timer fires
CopyTimerFired ==
    /\ site.copyTimers # << >>
    /\ LET timer == Head(site.copyTimers)
       IN  site' = [site EXCEPT
                      !.buttons[timer[1]] =
                          CopyFeedbackTimer(site.buttons[timer[1]], timer[2], timer[3]),
                      !.copyTimers = Tail(site.copyTimers)]
    /\ UNCHANGED rendererVars

InitCopy == NoDiagrams /\ site = SiteLoaded

NextCopy ==
    \/ \E b \in Buttons, class \in {"copied", "error"} : CopyClick(b, class)
    \/ CopyTimerFired

SpecCopy == InitCopy /\ [][NextCopy]_vars

\* ErrorHandler.logError: Storage.set returns true, or catches the
\* exception of localStorage.setItem and leaves the stored list as it was
LogError(stored) ==
    /\ site.logged < MaxLogs
    /\ site' = [site EXCEPT
                  !.logged = site.logged + 1,
                  !.errors = IF stored THEN PushError(site.errors, site.logged + 1)
                             ELSE site.errors,
                  !.written = IF stored THEN site.written \cup {site.logged + 1}
                              ELSE site.written]
    /\ UNCHANGED rendererVars

InitErrors == NoDiagrams /\ site = SiteLoaded

NextErrors == \E stored \in BOOLEAN : LogError(stored)

SpecErrors == InitErrors /\ [][NextErrors]_vars

\* the user changes checkbox cb and handleProgressChange runs; Storage.set
\* writes the value or catches the exception of setItem
ProgressChange(cb, stored) ==
    LET isChecked == ~site.checked[cb]
        checked == [site.checked EXCEPT ![cb] = isChecked]
        key == GetProgressKey(site.markup[cb])
    IN  Click([site EXCEPT
                 !.checked = checked,
                 !.storage = IF stored
                             THEN [site.storage EXCEPT
                                     ![key] = IF isChecked THEN "true" ELSE "false"]
                             ELSE site.storage,
                 !.recorded = IF stored
                              THEN [site.recorded EXCEPT
                                      ![cb] = IF isChecked THEN "true" ELSE "false"]
                              ELSE site.recorded,
                 !.percentage = PercentageOf(checked),
                 !.reloaded = FALSE])

\* the page is loaded again: the checkboxes are as in the HTML, then
\* initializeProgressTracking runs
Reload ==
    /\ ~site.reloaded
    /\ LET checked == LoadProgress(site.markup, site.storage)
       IN  site' = [site EXCEPT !.checked = checked,
                                !.percentage = PercentageOf(checked),
                                !.reloaded = TRUE]
    /\ UNCHANGED rendererVars

\* the first visit of a page with n progress checkboxes
InitProgress ==
    /\ NoDiagrams
    /\ \E n \in 0..MaxCheckboxes :
          \E markup \in [0..(n - 1) -> UNION {CheckboxMarkups(cb) : cb \in 0..(n - 1)}] :
             /\ \A cb \in 0..(n - 1) : markup[cb] \in CheckboxMarkups(cb)
             /\ site = [SiteLoaded EXCEPT
                          !.markup = markup,
                          !.checked = LoadProgress(markup, SiteLoaded.storage),
                          !.percentage = PercentageOf(LoadProgress(markup, SiteLoaded.storage)),
                          !.recorded = [cb \in 0..(n - 1) |-> "none"]]

NextProgress ==
    \/ \E cb \in DOMAIN site.checked, stored \in BOOLEAN : ProgressChange(cb, stored)
    \/ Reload

SpecProgress == InitProgress /\ [][NextProgress]_vars

\* an event of the navigation bar that leaves the site as next
Nav(event, next) ==
    /\ site' = [next EXCEPT !.lastEvent = event]
    /\ UNCHANGED rendererVars

\* click on the toggle of dropdown d: its listener, then the listeners on
\* document
ToggleClick(d) ==
    Nav("click", [site EXCEPT
        !.dropdowns = DocumentClick(ToggleDropdown(site.dropdowns, d), {d})])

\* Enter or Space on the toggle of dropdown d
ToggleKey(d) ==
    Nav("key", [site EXCEPT !.dropdowns = ToggleDropdown(site.dropdowns, d)])

\* ArrowDown on the toggle of dropdown d
ToggleArrowDown(d) ==
    Nav("key", [site EXCEPT !.dropdowns = OpenDropdown(site.dropdowns, d),
                            !.focus = <<"item", d, 0>>])

\* ArrowDown or ArrowUp on item i of the menu of dropdown d
ItemArrow(d, i, down) ==
    Nav("key", [site EXCEPT !.focus =
        <<"item", d, IF down THEN (IF i + 1 \in MenuItems THEN i + 1 ELSE 0)
                     ELSE (IF i - 1 \in MenuItems THEN i - 1
                           ELSE Cardinality(MenuItems) - 1)>>])

\* Escape on an item of the menu of dropdown d
ItemEscape(d) ==
    Nav("key", [site EXCEPT !.dropdowns = CloseDropdown(site.dropdowns, d),
                            !.focus = <<"toggle", d>>])

\* click on an item of an open menu (inside = {d}) or outside every
\* dropdown (inside = {})
OtherClick(inside) ==
    Nav("click", [site EXCEPT !.dropdowns = DocumentClick(site.dropdowns, inside)])

\* ThemeManager.toggleTheme; Storage.set writes the preference or catches
\* the exception of setItem
ToggleTheme(stored) ==
    LET newTheme == IF site.theme = "dark" THEN "light" ELSE "dark"
    IN  Nav("toggle", [site EXCEPT
            !.theme = newTheme,
            !.savedTheme = IF stored THEN newTheme ELSE site.savedTheme,
            !.toggled = stored \/ site.toggled])

\* the system colour scheme changes and the change listener runs
SystemPreferenceChange ==
    Nav("system", [site EXCEPT
        !.prefersDark = ~site.prefersDark,
        !.theme = OnSystemPreferenceChange(site.theme, site.savedTheme,
                                           ~site.prefersDark)])

\* the page is loaded again: NavigationManager and ThemeManager start anew
NavReload ==
    Nav("load", [site EXCEPT
        !.dropdowns = SiteLoaded.dropdowns,
        !.focus = SiteLoaded.focus,
        !.theme = LoadThemePreference(site.savedTheme, site.prefersDark)])

\* the first visit, the system preferring dark or light
InitNav ==
    /\ NoDiagrams
    /\ \E prefersDark \in BOOLEAN :
          site = [SiteLoaded EXCEPT !.prefersDark = prefersDark,
                                    !.theme = LoadThemePreference("null", prefersDark)]

NextNav ==
    \/ \E d \in Dropdowns : ToggleClick(d)
    \/ \E d \in Dropdowns : ToggleKey(d)
    \/ \E d \in Dropdowns : ToggleArrowDown(d)
    \/ \E d \in Dropdowns, i \in MenuItems, down \in BOOLEAN : ItemArrow(d, i, down)
    \/ \E d \in Dropdowns : ItemEscape(d)
    \/ \E inside \in {{}} \cup {{d} : d \in {x \in Dropdowns : site.dropdowns[x].active}} :
          OtherClick(inside)
    \/ \E stored \in BOOLEAN : ToggleTheme(stored)
    \/ SystemPreferenceChange
    \/ NavReload

SpecNav == InitNav /\ [][NextNav]_vars

\* a user event on the details modals, within the budget
ModalEvent(next) ==
    /\ site.modalEventsLeft > 0
    /\ site' = [next EXCEPT !.modalEventsLeft = site.modalEventsLeft - 1]
    /\ UNCHANGED rendererVars

\* click or Enter on a diagram element with details: showDetailsModal
\* appends a new modal to body
ShowDetailsModal ==
    ModalEvent([site EXCEPT
             !.modals = Append(site.modals, [inDocument |-> TRUE, visible |-> FALSE]),
             !.modalTimers = Append(site.modalTimers, <<"show", Len(site.modals) + 1>>)])

\* the site after closeDetailsModal(modal) for each modal of the sequence ms
RECURSIVE AfterCloseDetailsModals(_, _)
AfterCloseDetailsModals(s, ms) ==
    IF ms = << >> THEN s
    ELSE AfterCloseDetailsModals(
             [s EXCEPT !.modals = CloseDetailsModal(s.modals, Head(ms)),
                       !.modalTimers = Append(s.modalTimers, <<"remove", Head(ms)>>)],
             Tail(ms))

\* click on the close button or on the backdrop of modal m, which is in
\* the document
ModalClick(m) ==
    /\ site.modals[m].inDocument
    /\ ModalEvent(AfterCloseDetailsModals(site, <<m>>))

\* Escape is pressed: the keydown listener that each showDetailsModal call
\* added to document runs, in the order they were added
ModalEscape ==
    /\ site.modals # << >>
    /\ ModalEvent(AfterCloseDetailsModals(site, [m \in DOMAIN site.modals |-> m]))

\* a timer of the modals fires
ModalTimerFired(i) ==
    /\ i \in Fireable(site.modalTimers)
    /\ LET m == site.modalTimers[i][2]
       IN  site' = [site EXCEPT
                      !.modalTimers = Without(site.modalTimers, i),
                      !.modals = IF site.modalTimers[i][1] = "show"
                                 THEN [site.modals EXCEPT ![m].visible = TRUE]
                                 ELSE RemoveModalTimer(site.modals, m),
                      !.removeThrew = IF site.modalTimers[i][1] = "remove"
                                      THEN ~site.modals[m].inDocument
                                      ELSE site.removeThrew]
    /\ UNCHANGED rendererVars

InitModal == NoDiagrams /\ site = SiteLoaded

NextModal ==
    \/ ShowDetailsModal
    \/ \E m \in DOMAIN site.modals : ModalClick(m)
    \/ ModalEscape
    \/ \E i \in DOMAIN site.modalTimers : ModalTimerFired(i)

SpecModal == InitModal /\ [][NextModal]_vars

(***************************************************************************)
(* Page load: the DiagramRenderer instances the load-time code creates     *)
(* and their asynchronous render passes                                    *)
(***************************************************************************)
\* containers in the document, at most
MaxContainers == 2

\* The instances created: the DOMContentLoaded listener of line 1021 makes
\* one unless the event was dispatched before the script ran, and the
\* readyState test makes one more, at once or by a second listener.
NewRenderers(dispatched) == IF dispatched THEN {1} ELSE {1, 2}

\* init() runs to its first await: loadMermaid when mermaid is undefined,
\* else mermaid.render of the first container's renderDiagram
InitLoad ==
    /\ \E n \in 1..MaxContainers, dispatched \in BOOLEAN, defined \in BOOLEAN :
          load = [containers |-> 0..(n - 1),
                  pc |-> [r \in NewRenderers(dispatched) |->
                             IF defined THEN "check" ELSE "load"],
                  at |-> [r \in NewRenderers(dispatched) |-> 0],
                  held |-> [c \in 0..(n - 1) |-> {}],
                  inits |-> [c \in 0..(n - 1) |-> 0],
                  errors |-> {}]
    /\ diagrams = {}
    /\ vp = [d \in {} |-> InitializePanZoom]
    /\ fullscreen = [d \in {} |-> FALSE]
    /\ bodyOverflow = ""
    /\ thrown = FALSE
    /\ mouseHeld = {}
    /\ zoomsLeft = 0
    /\ pressesLeft = 0
    /\ rt = RtIdle(FALSE)
    /\ site = SiteLoaded

\* renderDiagram has returned to the loop of renderAllDiagrams
Advance(l, r) ==
    [l EXCEPT !.at[r] = l.at[r] + 1,
              !.pc[r] = IF l.at[r] + 1 \in l.containers THEN "check" ELSE "done"]

\* script.onload of loadMermaid
MermaidLoaded(r) ==
    /\ load.pc[r] = "load"
    /\ load' = [load EXCEPT !.pc[r] = "check"]
    /\ UNCHANGED <<site, diagrams, vp, fullscreen, bodyOverflow, thrown, mouseHeld,
                   zoomsLeft, pressesLeft, rt>>

\* script.onerror of loadMermaid: init() rejects and the pass never starts
MermaidLoadFailed(r) ==
    /\ load.pc[r] = "load"
    /\ load' = [load EXCEPT !.pc[r] = "failed"]
    /\ UNCHANGED <<site, diagrams, vp, fullscreen, bodyOverflow, thrown, mouseHeld,
                   zoomsLeft, pressesLeft, rt>>

\* renderDiagram up to its await: the already-rendered test, then the call
\* of mermaid.render
CheckRendered(r) ==
    /\ load.pc[r] = "check"
    /\ load' = IF load.held[load.at[r]] # {}
               THEN Advance(load, r)
               ELSE [load EXCEPT !.pc[r] = "render"]
    /\ UNCHANGED <<site, diagrams, vp, fullscreen, bodyOverflow, thrown, mouseHeld,
                   zoomsLeft, pressesLeft, rt>>

\* Variant of RenderResolved that leaves a controller already registered
\* under the same id as it is
RenderResolvedKeepsController(r) ==
    LET c == load.at[r]
    IN  /\ load.pc[r] = "render"
        /\ load' = Advance([load EXCEPT !.held[c] = {r},
                                        !.inits[c] = load.inits[c] + 1,
                                        !.errors = load.errors \ {c}], r)
        /\ diagrams' = diagrams \cup {c}
        /\ vp' = [d \in diagrams \cup {c} |->
                    IF d \in diagrams THEN vp[d] ELSE InitializePanZoom]
        /\ fullscreen' = [d \in diagrams \cup {c} |->
                            IF d \in diagrams THEN fullscreen[d] ELSE FALSE]
        /\ UNCHANGED <<site, bodyOverflow, thrown, mouseHeld, zoomsLeft, pressesLeft, rt>>

\* mermaid.render resolved: the container is emptied, the new element
\* inserted and initializePanZoom called on it
RenderResolved(r) ==
    LET c == load.at[r]
    IN  /\ load.pc[r] = "render"
        /\ load' = Advance([load EXCEPT !.held[c] = {r},
                                        !.inits[c] = load.inits[c] + 1,
                                        !.errors = load.errors \ {c}], r)
        /\ diagrams' = diagrams \cup {c}
        /\ vp' = [d \in diagrams \cup {c} |->
                    IF d = c THEN InitializePanZoom ELSE vp[d]]
        /\ fullscreen' = [d \in diagrams \cup {c} |->
                            IF d \in diagrams THEN fullscreen[d] ELSE FALSE]
        /\ UNCHANGED <<site, bodyOverflow, thrown, mouseHeld, zoomsLeft, pressesLeft, rt>>

\* Variant of RenderRejected without the try/catch of renderDiagram: the
\* rejection ends the pass
RenderRejectedEndsPass(r) ==
    LET c == load.at[r]
    IN  /\ load.pc[r] = "render"
        /\ load' = [load EXCEPT !.pc[r] = "failed"]
        /\ UNCHANGED <<site, diagrams, vp, fullscreen, bodyOverflow, thrown, mouseHeld,
                       zoomsLeft, pressesLeft, rt>>

\* mermaid.render rejected: the catch block replaces the container's
\* content by the error message
RenderRejected(r) ==
    LET c == load.at[r]
    IN  /\ load.pc[r] = "render"
        /\ load' = Advance([load EXCEPT !.held[c] = {},
                                        !.errors = load.errors \cup {c}], r)
        /\ diagrams' = diagrams \ {c}
        /\ vp' = [d \in diagrams \ {c} |-> vp[d]]
        /\ fullscreen' = [d \in diagrams \ {c} |-> fullscreen[d]]
        /\ UNCHANGED <<site, bodyOverflow, thrown, mouseHeld, zoomsLeft, pressesLeft, rt>>

NextLoad ==
    \/ \E r \in DOMAIN load.pc : MermaidLoaded(r)
    \/ \E r \in DOMAIN load.pc : MermaidLoadFailed(r)
    \/ \E r \in DOMAIN load.pc : CheckRendered(r)
    \/ \E r \in DOMAIN load.pc : RenderResolved(r)
    \/ \E r \in DOMAIN load.pc : RenderRejected(r)

SpecLoad == InitLoad /\ [][NextLoad]_vars

\* the same with the user already zooming by wheel, and pressing and
\* releasing the mouse on, the diagrams rendered so far
InitRegister ==
    /\ \E n \in 1..MaxContainers, dispatched \in BOOLEAN, defined \in BOOLEAN :
          load = [containers |-> 0..(n - 1),
                  pc |-> [r \in NewRenderers(dispatched) |->
                             IF defined THEN "check" ELSE "load"],
                  at |-> [r \in NewRenderers(dispatched) |-> 0],
                  held |-> [c \in 0..(n - 1) |-> {}],
                  inits |-> [c \in 0..(n - 1) |-> 0],
                  errors |-> {}]
    /\ diagrams = {}
    /\ vp = [d \in {} |-> InitializePanZoom]
    /\ fullscreen = [d \in {} |-> FALSE]
    /\ bodyOverflow = ""
    /\ thrown = FALSE
    /\ mouseHeld = {}
    /\ zoomsLeft = MaxZooms
    /\ pressesLeft = MaxPresses
    /\ rt = RtIdle(FALSE)
    /\ site = SiteLoaded

NextRegister ==
    \/ NextLoad
    \/ \E d \in diagrams, deltaY \in {-120, 120} : Wheel(d, <<120, 60>>, deltaY)
    \/ \E d \in diagrams : MouseDown(d, <<120, 60>>)
    \/ MouseUp

SpecRegister == InitRegister /\ [][NextRegister]_vars

(***************************************************************************)
(* Properties                                                              *)
(***************************************************************************)
Session(s) == <<s.isDragging, s.startX, s.startY, s.lastTouchDistance>>

Sign(x) == IF x > 0 THEN 1 ELSE IF x < 0 THEN -1 ELSE 0

\* The diagram point that s shows at client position (cx, cy) is shown at
\* the same client position by s2 (client = box origin + translate + scale * point).
PivotStable(s, s2, box, cx, cy) ==
    LET r == Rendered(s)
        r2 == Rendered(s2)
        ux == RDiv(RSub(RSub(cx, Num(box.left)), r.translateX), r.scale)
        uy == RDiv(RSub(RSub(cy, Num(box.top)), r.translateY), r.scale)
    IN  /\ RAdd(RAdd(Num(box.left), r2.translateX), RMul(r2.scale, ux)) = cx
        /\ RAdd(RAdd(Num(box.top), r2.translateY), RMul(r2.scale, uy)) = cy

\* C1: in every reachable state the scale of every controller satisfies
\* 0.5 <= scale <= 3.0.
C1_ScaleClamped ==
    \A d \in diagrams :
        RLe(<<1, 2>>, vp[d].scale) /\ RLe(vp[d].scale, <<3, 1>>)

\* a scale change has been made and has left the scale on the upper bound
C1_Witness ==
    \E d \in diagrams : vp[d].scale = <<3, 1>> /\ zoomsLeft < MaxZooms

\* C2: a wheel zoom keeps the diagram point under the cursor where it is on
\* screen, and a pinch zoom the point under the midpoint of the two contacts.
C2_PivotStable ==
    [][\A d \in diagrams :
        /\ \A p \in ClientPoints, deltaY \in WheelDeltas :
              Wheel(d, p, deltaY)
                => PivotStable(vp[d], vp'[d], Box(d), Num(p[1]), Num(p[2]))
        /\ \A touches \in TouchLists :
              (Len(touches) = 2 /\ TouchMove(d, touches))
                => PivotStable(vp[d], vp'[d], Box(d),
                               RDiv(Num(touches[1][1] + touches[2][1]), Num(2)),
                               RDiv(Num(touches[1][2] + touches[2][2]), Num(2)))
      ]_vars

\* a step of a gesture performed on diagram a, or of a call addressed to it;
\* the mouse moves and the mouse release belong to the drag of the one
\* diagram the mouse button went down on
GestureOn(a) ==
    \/ \E p \in ClientPoints, deltaY \in WheelDeltas : Wheel(a, p, deltaY)
    \/ \E p \in ClientPoints : MouseDown(a, p)
    \/ mouseHeld = {a} /\ \E p \in ClientPoints : MouseMove(p)
    \/ mouseHeld = {a} /\ MouseUp
    \/ \E touches \in TouchLists : TouchStart(a, touches)
    \/ \E touches \in TouchLists : TouchMove(a, touches)
    \/ TouchEnd(a)
    \/ ZoomIn(a)
    \/ ZoomOut(a)
    \/ ResetView(a)

\* C3: no gesture on diagram a and no call addressed to a changes the
\* Transform of another diagram b.
C3_Independence ==
    [][\A a \in diagrams, b \in diagrams :
        (a # b /\ GestureOn(a)) => Transform(vp'[b]) = Transform(vp[b])]_vars

\* C4: from every reachable state resetView leaves the Transform at exactly
\* {1, 0, 0}, and a second resetView changes nothing more.
C4_Reset ==
    \A index \in diagrams :
        /\ Transform(AfterResetView(index)) = Identity
        /\ ElementResetView(AfterResetView(index)) = AfterResetView(index)

\* the view has been zoomed and then reset
C4_Witness ==
    /\ zoomsLeft < MaxZooms
    /\ Transform(vp[0]) = Identity
    /\ vp[0].styleTransform = <<Num(0), Num(0), Num(1)>>
    /\ vp[0].cursor = "default"

\* C5: after a drag from p0 to p1 and a second drag from p1 back to p0, with
\* no zoom and no reset between them, the translation is what it was when
\* the first drag began.
C5_DragRoundTrip ==
    rt.phase = 4 => Translation(vp[Watched]) = rt.t0

\* such a pair of drags has been made, between two different points, from a
\* translation left by a zoom
C5_Witness ==
    /\ rt.phase = 4
    /\ rt.p1 # rt.p0
    /\ rt.t0 # <<Num(0), Num(0)>>

\* C6: a two-contact touchmove that asks for a scale above 3.0 leaves the
\* scale at 3.0, and one that asks for a scale below 0.5 leaves it at 0.5.
C6_PinchBoundary ==
    \A d \in diagrams, touches \in TouchLists :
        (Len(touches) = 2 /\ RLt(Num(0), vp[d].lastTouchDistance))
        => LET requested ==
                   RMul(vp[d].scale,
                        RDiv(TouchDistance(touches[1], touches[2]),
                             vp[d].lastTouchDistance))
               after == AfterTouchMove(d, touches)
           IN  /\ RLt(<<3, 1>>, requested) => after.scale = <<3, 1>>
               /\ RLt(requested, <<1, 2>>) => after.scale = <<1, 2>>

\* a pinch from distance 50 to distance 300 has asked for six times the
\* scale and left it on the upper bound
C6_Witness ==
    /\ vp[0].scale = <<3, 1>>
    /\ vp[0].lastTouchDistance = Num(300)
    /\ zoomsLeft = MaxZooms - 1

\* C7: from {1, 0, 0}, a wheel event with deltaY = -120 at the cursor
\* position (100, 50) relative to the element gives scale 1.1, translateX -10
\* and translateY -5.
C7_WheelExample ==
    \A p \in ClientPoints :
        (/\ Transform(vp[0]) = Identity
         /\ p[1] - Box(0).left = 100
         /\ p[2] - Box(0).top = 50)
        => Transform(AfterWheel(0, p, -120)) = <<(<<11, 10>>), Num(-10), Num(-5)>>

\* the state the example ends in
C7_Witness ==
    /\ Transform(vp[0]) = <<(<<11, 10>>), Num(-10), Num(-5)>>
    /\ vp[0].styleTransform = <<Num(-10), Num(-5), (<<11, 10>>)>>

\* C8: a wheel event multiplies the scale by 0.9 when deltaY > 0 and by 1.1
\* otherwise and clamps it; a wheel event with another deltaY of the same
\* sign at the same position gives the same controller state; the gesture
\* session is left as it was.
C8_FixedWheelStep ==
    \A d \in diagrams, p \in ClientPoints, deltaY \in WheelDeltas :
        LET after == AfterWheel(d, p, deltaY)
        IN  /\ after.scale =
                  RMax(<<1, 2>>,
                       RMin(<<3, 1>>,
                            RMul(vp[d].scale,
                                 IF deltaY > 0 THEN <<9, 10>> ELSE <<11, 10>>)))
            /\ \A other \in WheelDeltas :
                  Sign(other) = Sign(deltaY) => AfterWheel(d, p, other) = after
            /\ Session(after) = Session(vp[d])

\* a wheel event has zoomed out during a drag, and the drag is still active
C8_Witness ==
    /\ vp[0].isDragging
    /\ vp[0].scale = <<9, 10>>

\* C9: zoomIn at scale 3.0 and zoomOut at scale 0.5 change nothing of the
\* controller: scale, translation, rendered transform, cursor.
C9_ZoomNoOpAtBound ==
    \A index \in diagrams :
        /\ vp[index].scale = <<3, 1>> => AfterZoomIn(index) = vp[index]
        /\ vp[index].scale = <<1, 2>> => AfterZoomOut(index) = vp[index]

\* the scale is on the lower bound, with the transform rendered, and no
\* scale change is left: a zoomOut made here can only be the no-op
C9_Witness ==
    /\ vp[0].scale = <<1, 2>>
    /\ vp[0].styleTransform # << >>
    /\ zoomsLeft = 0

C11_ToggleFrame ==
    [][\A index \in diagrams :
        ToggleFullscreen(index)
          => /\ vp' = vp
             /\ fullscreen'[index] = ~fullscreen[index]
             /\ \A other \in diagrams \ {index} :
                   fullscreen'[other] = fullscreen[other]]_vars

\* one of two containers has been made fullscreen during a drag of its
\* zoomed diagram
C11_Witness ==
    /\ diagrams = {0, 1}
    /\ fullscreen[0] /\ ~fullscreen[1]
    /\ vp[0].isDragging
    /\ vp[0].scale # Num(1)

\* C12: a toggleFullscreen call that enters fullscreen leaves the page's
\* scroll suppressed (body overflow hidden) and one that exits fullscreen
\* leaves it restored (body overflow unset).
C12_ScrollSuppressed ==
    [][\A index \in diagrams :
        ToggleFullscreen(index)
          => /\ fullscreen'[index] => bodyOverflow' = "hidden"
             /\ ~fullscreen'[index] => bodyOverflow' = ""]_vars

\* both containers were made fullscreen and the first has left it again
C12_Witness ==
    /\ diagrams = {0, 1}
    /\ ~fullscreen[0] /\ fullscreen[1]
    /\ bodyOverflow = ""

\* C13: zoomIn, zoomOut, resetView and toggleFullscreen called with an index
\* whose diagram is not registered raise no error to the caller and change
\* no viewport and no container.
C13_UnregisteredNoOp ==
    [][\A index \in Indices \ diagrams :
        (ZoomIn(index) \/ ZoomOut(index) \/ ResetView(index)
           \/ ToggleFullscreen(index))
          => /\ ~thrown'
             /\ UNCHANGED <<vp, fullscreen, bodyOverflow>>]_vars

\* no drag is active and no pinch distance is recorded
Idle(s) == ~s.isDragging /\ s.lastTouchDistance = Num(0)

\* C14: an event that matches no gesture in progress never throws and leaves
\* the viewport Idle: a touchend, mouseup, mousemove or touchmove arriving
\* before any press, and a touch event with three or more contacts.
C14_MalformedToIdle ==
    [][\A d \in diagrams :
        /\ (/\ pressesLeft = MaxPresses
            /\ \/ TouchEnd(d)
               \/ MouseUp
               \/ \E p \in ClientPoints : MouseMove(p)
               \/ \E touches \in TouchLists : TouchMove(d, touches))
             => ~thrown' /\ Idle(vp'[d])
        /\ \A touches \in TouchLists :
              (/\ Len(touches) >= 3
               /\ TouchStart(d, touches) \/ TouchMove(d, touches))
                => ~thrown' /\ Idle(vp'[d])]_vars

\* C15: a touchstart with two contacts arriving while the viewport is
\* Dragging leaves it Pinching with no drag session active.
C15_PinchSupersedesDrag ==
    [][\A d \in diagrams, touches \in TouchLists :
        (Len(touches) = 2 /\ vp[d].isDragging /\ TouchStart(d, touches))
          => /\ ~vp'[d].isDragging
             /\ RLt(Num(0), vp'[d].lastTouchDistance)]_vars

\* C16: touchend leaves the viewport Idle, and a touchmove with one contact
\* that follows it changes nothing of the controller; in particular when
\* the touchend ends a pinch.
C16_NoResumeAfterPinch ==
    \A d \in diagrams :
        LET ended == OnTouchEnd(vp[d])
        IN  /\ Idle(ended)
            /\ \A touches \in TouchLists :
                  Len(touches) = 1 => OnTouchMove(ended, Box(d), touches) = ended

\* a pinch has zoomed to the upper bound and its touchend has arrived
C16_Witness ==
    /\ vp[0].scale = <<3, 1>>
    /\ vp[0].lastTouchDistance = Num(0)
    /\ ~vp[0].isDragging
    /\ zoomsLeft = MaxZooms - 1

\* C17: after a mouseup ending a mouse drag, after a touchend, and after a
\* touchcancel arriving during a one-finger touch drag, no drag session is
\* active on the viewport.
C17_SessionDestroyed ==
    [][\A d \in diagrams :
        (\/ d \in mouseHeld /\ MouseUp
         \/ TouchEnd(d)
         \/ /\ d = Watched
            /\ rt.phase \in {1, 3}
            /\ rt.kind = "touch"
            /\ TouchCancel(d))
          => ~vp'[d].isDragging]_vars

\* C18: while a drag is under way with no zoom or reset since it began, the
\* translation is the translation at the start of the drag plus the
\* pointer's displacement since then (a second drag that starts where the
\* first ended continues the same displacement).
C18_DragAbsolute ==
    rt.phase \in {1, 3}
      => Translation(vp[Watched]) =
           <<RAdd(rt.t0[1], Num(rt.cur[1] - rt.p0[1])),
             RAdd(rt.t0[2], Num(rt.cur[2] - rt.p0[2]))>>

\* a drag that began on a panned, zoomed view has moved the pointer away
C18_Witness ==
    /\ rt.phase = 1
    /\ rt.cur # rt.p0
    /\ rt.t0 # <<Num(0), Num(0)>>
    /\ vp[Watched].isDragging

\* C20: a viewport holds its document-level mousemove/mouseup subscription
\* exactly while its drag is active.
C20_ScopedSubscription ==
    \A d \in diagrams : DocumentListeners(d) # {} <=> vp[d].isDragging

\* C19: whatever the interleaving of the render passes, initializePanZoom
\* has run at most once for each container, each id diagram-N denotes at
\* most one element, and an element in a container has its one controller.
C19_RegistryOneToOne ==
    \A c \in load.containers :
        /\ load.inits[c] <= 1
        /\ Cardinality(load.held[c]) <= 1
        /\ load.held[c] # {} => load.inits[c] = 1

\* C21: in every state the rendered transform of each element and the
\* panZoomState stored on it equal the controller's scale, translateX and
\* translateY.
C21_Rendered ==
    \A d \in diagrams :
        /\ Rendered(vp[d]) = [translateX |-> vp[d].translateX,
                               translateY |-> vp[d].translateY,
                               scale |-> vp[d].scale]
        /\ vp[d].panZoomState = [scale |-> vp[d].scale,
                                  translateX |-> vp[d].translateX,
                                  translateY |-> vp[d].translateY]

\* a zoom and a pan have both been rendered
C21_Witness ==
    /\ vp[0].scale # Num(1)
    /\ vp[0].isDragging
    /\ vp[0].styleTransform = <<vp[0].translateX, vp[0].translateY, vp[0].scale>>
    /\ vp[0].panZoomState.translateX # Num(0)
    /\ zoomsLeft = 0 /\ pressesLeft = 0

\* C23: with a recorded lastTouchDistance > 0, a touchmove with two contacts
\* sets the scale to clamp(scale * currentDistance / lastTouchDistance) and
\* lastTouchDistance to currentDistance, whether or not the scale changed,
\* and leaves isDragging as it was.
C23_PinchStep ==
    \A d \in diagrams, touches \in TouchLists :
        (Len(touches) = 2 /\ RLt(Num(0), vp[d].lastTouchDistance))
        => LET currentDistance == TouchDistance(touches[1], touches[2])
               after == AfterTouchMove(d, touches)
           IN  /\ after.scale =
                     RMax(<<1, 2>>,
                          RMin(<<3, 1>>,
                               RDiv(RMul(vp[d].scale, currentDistance),
                                    vp[d].lastTouchDistance)))
               /\ after.lastTouchDistance = currentDistance
               /\ RLt(Num(0), after.lastTouchDistance)
               /\ after.isDragging = vp[d].isDragging

\* a pinch from distance 300 to distance 50 has been clamped at the lower
\* bound and has recorded the new distance
C23_Witness ==
    /\ vp[0].scale = <<1, 2>>
    /\ vp[0].lastTouchDistance = Num(50)
    /\ zoomsLeft = MaxZooms - 1

\* the offset of a client coordinate from the element's bounding rect, the
\* pivot the wheel and pinch handlers use
PivotAt(s, box, cx, cy) ==
    <<RSub(cx, GetBoundingClientRect(s, box).left),
      RSub(cy, GetBoundingClientRect(s, box).top)>>

\* the translation of after is that of s moved about pivot by the ratio of
\* the two scales
MovedByScaleRatio(s, after, pivot) ==
    LET ratio == RDiv(after.scale, s.scale)
    IN  /\ after.translateX =
              RSub(pivot[1], RMul(RSub(pivot[1], s.translateX), ratio))
        /\ after.translateY =
              RSub(pivot[2], RMul(RSub(pivot[2], s.translateY), ratio))

\* C24: wheel, pinch, zoomIn and zoomOut recompute the translation with the
\* ratio of the clamped new scale to the old scale; a request that leaves
\* the scale where it is leaves the translation where it is.
C24_ClampBeforeTranslate ==
    \A d \in diagrams :
        LET s == vp[d]
            rect == GetBoundingClientRect(s, Box(d))
            center == <<RDiv(rect.width, Num(2)), RDiv(rect.height, Num(2))>>
        IN  /\ \A p \in ClientPoints, deltaY \in WheelDeltas :
                  MovedByScaleRatio(s, AfterWheel(d, p, deltaY),
                                    PivotAt(s, Box(d), Num(p[1]), Num(p[2])))
            /\ \A touches \in TouchLists :
                  Len(touches) = 2
                    => MovedByScaleRatio(s, AfterTouchMove(d, touches),
                           PivotAt(s, Box(d),
                                   RDiv(Num(touches[1][1] + touches[2][1]), Num(2)),
                                   RDiv(Num(touches[1][2] + touches[2][2]), Num(2))))
            /\ MovedByScaleRatio(s, AfterZoomIn(d), center)
            /\ MovedByScaleRatio(s, AfterZoomOut(d), center)

\* a pinch that asked for six times the scale about (110, 140) has moved
\* the translation by the clamped ratio 3
C24_Witness ==
    Transform(vp[0]) = <<(<<3, 1>>), Num(-220), Num(-280)>>

\* C26: a mousemove or one-contact touchmove never changes the scale; while
\* a drag is active it sets the translation to the pointer position minus
\* the drag origin, whatever its size; while none is active it changes
\* nothing.
C26_PanOnlyTranslates ==
    \A d \in diagrams :
        /\ \A p \in ClientPoints :
              LET after == OnMouseMove(vp[d], p[1], p[2])
              IN  /\ after.scale = vp[d].scale
                  /\ vp[d].isDragging
                       => Translation(after) =
                            <<RSub(Num(p[1]), vp[d].startX),
                              RSub(Num(p[2]), vp[d].startY)>>
                  /\ ~vp[d].isDragging => after = vp[d]
        /\ \A touches \in TouchLists :
              Len(touches) = 1 =>
                LET after == AfterTouchMove(d, touches)
                IN  /\ after.scale = vp[d].scale
                    /\ vp[d].isDragging
                         => Translation(after) =
                              <<RSub(Num(touches[1][1]), vp[d].startX),
                                RSub(Num(touches[1][2]), vp[d].startY)>>
                    /\ ~vp[d].isDragging => after = vp[d]

\* a drag has moved the unzoomed view by (80, 30)
C26_Witness ==
    /\ vp[0].isDragging
    /\ Transform(vp[0]) = <<Num(1), Num(80), Num(30)>>
    /\ vp[0].styleTransform # << >>

\* C22: registering a diagram element gives it a controller with the
\* identity Transform and an Idle session, whatever the state of the
\* controllers registered before, and changes no other controller.
C22_FreshViewport ==
    [][\A r \in DOMAIN load.pc :
        RenderResolved(r)
          => /\ Transform(vp'[load.at[r]]) = Identity
             /\ Idle(vp'[load.at[r]])
             /\ \A d \in diagrams \ {load.at[r]} : vp'[d] = vp[d]]_vars

\* the one container of the page was registered a second time after its
\* first diagram had been zoomed
C22_Witness ==
    /\ load.containers = {0}
    /\ load.inits[0] = 2
    /\ zoomsLeft < MaxZooms
    /\ 0 \in diagrams
    /\ vp[0] = InitializePanZoom

\* the centre of a box, in client coordinates
CenterOf(b) ==
    <<RAdd(b.left, RDiv(b.width, Num(2))), RAdd(b.top, RDiv(b.height, Num(2)))>>

\* the toolbar zoom from s to after keeps the point shown at the visual
\* centre where it is: the centre of the container or, read the other way,
\* the centre of the diagram as rendered
CenterStable(s, after, box) ==
    LET view == CenterOf([left |-> Num(box.left), top |-> Num(box.top),
                          width |-> Num(box.width), height |-> Num(box.height)])
        shown == CenterOf(GetBoundingClientRect(s, box))
    IN  \/ PivotStable(s, after, box, view[1], view[2])
        \/ PivotStable(s, after, box, shown[1], shown[2])

\* C25: zoomIn() sets the scale to min(3.0, scale * 1.2) and zoomOut() to
\* max(0.5, scale * 0.8), and each keeps the diagram point displayed at the
\* visual centre at the same screen position, for any starting scale and
\* translation.
C25_ToolbarZoomCentered ==
    \A d \in diagrams :
        /\ AfterZoomIn(d).scale = RMin(MAX_SCALE, RMul(vp[d].scale, ZOOM_IN_FACTOR))
        /\ AfterZoomOut(d).scale = RMax(MIN_SCALE, RMul(vp[d].scale, ZOOM_OUT_FACTOR))
        /\ CenterStable(vp[d], AfterZoomIn(d), Box(d))
        /\ CenterStable(vp[d], AfterZoomOut(d), Box(d))

\* C27: in every reachable state the cursor of the element is "grabbing"
\* while a drag is active, "grab" when the controller is idle with
\* scale > 1, and the default cursor otherwise; resetView() sets the default
\* cursor.
C27_CursorFollowsState ==
    \A d \in diagrams :
        /\ vp[d].cursor = IF vp[d].isDragging THEN "grabbing"
                          ELSE CursorForScale(vp[d].scale)
        /\ AfterResetView(d).cursor = "default"

\* the controllers that a wheel zoom, zoomIn(), zoomOut() or resetView()
\* can leave diagram d's in
AfterZoomOrReset(d) ==
    { AfterWheel(d, p, deltaY) : p \in ClientPoints, deltaY \in WheelDeltas }
      \cup { AfterZoomIn(d), AfterZoomOut(d), AfterResetView(d) }

\* the move event of a drag of the given kind, with the pointer at q
DragMove(kind, s, box, q) ==
    IF kind = "mouse" THEN OnMouseMove(s, q[1], q[2]) ELSE OnTouchMove(s, box, <<q>>)

\* C28: a wheel zoom, zoomIn, zoomOut or resetView during an active mouse or
\* one-finger drag is not lost: after the next move event the scale is the
\* one the operation set and the translation is the one it produced plus the
\* displacement of the pointer since the operation.
C28_ZoomDuringDragKept ==
    (rt.phase \in {1, 3} /\ vp[Watched].isDragging)
      => \A z \in AfterZoomOrReset(Watched), q \in ClientPoints :
            LET m == DragMove(rt.kind, z, Box(Watched), q)
            IN  /\ m.scale = z.scale
                /\ m.translateX = RAdd(z.translateX, Num(q[1] - rt.cur[1]))
                /\ m.translateY = RAdd(z.translateY, Num(q[2] - rt.cur[2]))

\* C29: a document-level mousemove changes the translation of a controller
\* only if a mousedown on its element occurred with no mouseup since, so a
\* session started by touchstart is never moved by the mouse; and a mouseup
\* does not end a touch session.
C29_MouseTouchSeparate ==
    [][\A d \in diagrams \ mouseHeld :
        /\ (\E p \in ClientPoints : MouseMove(p))
              => Translation(vp'[d]) = Translation(vp[d])
        /\ MouseUp => vp'[d].isDragging = vp[d].isDragging]_vars

\* C30: with several diagrams and any sequence of toggleFullscreen calls,
\* the scroll of the page is suppressed in every state where at least one
\* container is in fullscreen and restored in every state where none is.
C30_ScrollFollowsFullscreen ==
    bodyOverflow = IF \E d \in diagrams : fullscreen[d] THEN "hidden" ELSE ""

\* the pass of renderer r has left container c behind
Passed(r, c) == load.pc[r] = "done" \/ (load.pc[r] # "failed" /\ load.at[r] > c)

C32_CollapsibleSettles ==
    site.animTimers = << >>
      => \A h \in Headers :
            LET c == site.sections[h]
            IN  /\ (c.display = "block") = c.aria
                /\ c.classes = {IF c.aria THEN "expanded" ELSE "collapsed"}

\* C33: for any sequence of copy clicks on a button, successful or failed,
\* however close together, once all feedback timers have fired the button
\* shows its original label and carries neither the copied nor the error
\* class.
C33_CopyFeedbackTemporary ==
    site.copyTimers = << >>
      => \A b \in Buttons :
            /\ site.buttons[b].text = CopyButton.text
            /\ site.buttons[b].classes \cap {"copied", "error"} = {}

\* the last n elements of the increasing enumeration of the set S of numbers
RECURSIVE LastOf(_, _)
LastOf(S, n) ==
    IF S = {} \/ n = 0 THEN << >>
    ELSE LET m == CHOOSE x \in S : \A y \in S : y <= x
         IN  Append(LastOf(S \ {m}, n - 1), m)

C35_ProgressRoundTrip ==
    /\ site.reloaded
         => \A cb \in DOMAIN site.checked :
               site.recorded[cb] # "none"
                 => site.checked[cb] = (site.recorded[cb] = "true")
    /\ site.percentage = PercentageOf(site.checked)
    /\ site.percentage \in 0..100
    /\ DOMAIN site.checked = {} => site.percentage = 0

C37_DropdownExclusive ==
    /\ Cardinality({d \in Dropdowns : site.dropdowns[d].active}) <= 1
    /\ \A d \in Dropdowns :
          (site.dropdowns[d].aria = "true") = site.dropdowns[d].active

\* dropdown 1 was opened with ArrowDown, which closed the others and moved
\* the focus to its first item
C37_Witness ==
    /\ site.lastEvent = "key"
    /\ site.dropdowns[1].active
    /\ site.dropdowns[0].aria = "false"
    /\ site.focus = <<"item", 1, 0>>

\* C38: for any sequence of close-button clicks, backdrop clicks and Escape
\* presses, closeDetailsModal never attempts to remove a modal that is no
\* longer in the document, and never throws.
C38_ModalRemovedOnce == ~site.removeThrew

=============================================================================
